---- MODULE Spec2Model ----
(***************************************************************************)
(* Model of leopardweb_courses.py: the LeopardWebClient session and        *)
(* pagination protocol, the detail enrichment pass, the record flattener   *)
(* and the fetch_courses driver.                                           *)
(*                                                                         *)
(* Python values are tagged records so that None, strings, booleans, lists *)
(* and dicts stay distinct, as they are for the interpreter.  A string is  *)
(* a sequence of one-character strings, so that str.strip and str.join are *)
(* computed and not assumed.                                               *)
(***************************************************************************)
EXTENDS Integers, Sequences, FiniteSets, TLC

VARIABLES
    pc,              \* position of fetch_courses / get_course_catalog
    detailed,        \* get_course_catalog's flag (fetch_courses: not quick)
    server,          \* how the catalog service answers page requests
    session_cookie,  \* LeopardWebClient.session_cookie
    all_courses,     \* get_course_catalog's accumulated list
    offset,          \* get_course_catalog's offset
    total_count,     \* get_course_catalog's total_count (None until page one)
    course_index,    \* position of the enrichment for-loop in all_courses
    returned,        \* what get_course_catalog handed to its caller
    raised,          \* the exception that left get_course_catalog, if any
    serializer,      \* the save_as_* function fetch_courses invoked
    exit_code,       \* the process exit status
    requests,        \* history: every HTTP request sent, in order
    page_data,       \* history: the 'data' list of each page response
    last_lookup,     \* history: the responses to the last record's lookups
    flat_course,     \* the CourseSummary flatten_course_data is called on
    flat_result      \* what that call returned or raised (None before it)

vars == <<pc, detailed, server, session_cookie, all_courses, offset,
          total_count, course_index, returned, raised, serializer, exit_code,
          requests, page_data, last_lookup, flat_course, flat_result>>

(***************************************************************************)
(* Bounds of the model.                                                    *)
(***************************************************************************)
\* Most records an unconstrained server delivers over one run.
MaxCourses == 2
\* Largest catalog a well-behaved (exactly paging) server holds.
MaxHeld == 1001
\* Most records in the short catalog of mixed records.
MaxCatalog == 3

(***************************************************************************)
(* Python values.                                                          *)
(***************************************************************************)
None == [t |-> "None"]

Str(s) == [t |-> "str", s |-> s]

Bool(b) == [t |-> "bool", b |-> b]

Num(n) == [t |-> "int", n |-> n]

List(l) == [t |-> "list", l |-> l]

Dict(d) == [t |-> "dict", d |-> d]

\* Python truth value of a value (bool(v)).
Truthy(v) ==
    CASE v.t = "None" -> FALSE
      [] v.t = "str"  -> v.s # <<>>
      [] v.t = "bool" -> v.b
      [] v.t = "int"  -> v.n # 0
      [] v.t = "list" -> v.l # <<>>
      [] v.t = "dict" -> DOMAIN v.d # {}

\* dict.get(key, default) on the key -> value mapping of a dict.
DictGet(d, key, default) == IF key \in DOMAIN d THEN d[key] ELSE default

\* d[key] = value
DictSet(d, key, value) ==
    [k \in DOMAIN d \cup {key} |-> IF k = key THEN value ELSE d[k]]

\* The empty dict {}.
EmptyDict == [k \in {} |-> None]

RECURSIVE Concat(_)
\* The concatenation of a sequence of sequences.
Concat(ss) == IF ss = <<>> THEN <<>> ELSE Head(ss) \o Concat(Tail(ss))

(***************************************************************************)
(* Data the catalog service can deliver.                                   *)
(***************************************************************************)
\* One embedded meeting entry of a summary (meetingsFaculty[i]).
EmbeddedMeeting ==
    Dict([meetingTime |-> Dict([
        monday    |-> Bool(TRUE),
        tuesday   |-> Bool(FALSE),
        wednesday |-> Bool(TRUE),
        beginTime |-> Str(<<"1","0","0","0">>),
        endTime   |-> Str(<<"1","0","5","0">>),
        building  |-> Str(<<"W","E","N","T">>),
        room      |-> Str(<<"1","0","0">>)])])

\* One entry of a getFacultyMeetingTimes 'fmt' list.
FacultyMeeting ==
    Dict([meetingTime |-> Dict([
        tuesday   |-> Bool(TRUE),
        thursday  |-> Bool(TRUE),
        beginTime |-> Str(<<"0","8","0","0">>),
        endTime   |-> Str(<<"0","9","2","0">>),
        building  |-> Str(<<"B","E","A","T","T">>),
        buildingDescription |-> Str(<<"B","e","a","t","t","y">>),
        room      |-> Str(<<"4","0","1">>)])])

\* A summary as the catalog sends it: embedded meetings, one faculty member,
\* a null field (creditHours) and an absent one (waitCapacity).
CourseA ==
    [courseReferenceNumber |-> Str(<<"1","1">>),
     subject |-> Str(<<"C","O","M","P">>),
     courseNumber |-> Str(<<"1","0","0","0">>),
     sequenceNumber |-> Str(<<"0","1">>),
     courseTitle |-> Str(<<"C","S">>),
     creditHours |-> None,
     scheduleTypeDescription |-> Str(<<"L","e","c">>),
     instructionalMethod |-> Str(<<"T","R">>),
     faculty |-> List(<<Dict([displayName |-> Str(<<"A","."," ","S","m","i","t","h">>)])>>),
     meetingsFaculty |-> List(<<EmbeddedMeeting>>),
     campusDescription |-> Str(<<"W","I","T">>),
     enrollment |-> Num(20),
     maximumEnrollment |-> Num(24),
     seatsAvailable |-> Num(4),
     waitCount |-> Num(0)]

\* A summary whose course-reference-number is the empty string.
CourseNoCrn ==
    [courseReferenceNumber |-> Str(<<>>),
     subject |-> Str(<<"A","R","C","H">>),
     meetingsFaculty |-> List(<<EmbeddedMeeting>>)]

\* A summary without a course-reference-number.
CourseMissingCrn ==
    [subject |-> Str(<<"M","A","T","H">>)]

\* The records a catalog service may hold.
CatalogSummaries == {CourseA, CourseNoCrn, CourseMissingCrn}

\* The summaries an unconstrained server draws page contents from.
Summaries == {CourseA, CourseNoCrn}

RECURSIVE Decimal(_)
\* str(n) for a natural number n.
Decimal(n) ==
    LET digit == <<"0","1","2","3","4","5","6","7","8","9">>[(n % 10) + 1]
    IN  IF n < 10 THEN <<digit>> ELSE Append(Decimal(n \div 10), digit)

\* Record number i (from 0) of the catalog a well-behaved server holds.
HeldCourse(i) ==
    [courseReferenceNumber |-> Str(Decimal(10000 + i)),
     subject |-> Str(<<"C","O","M","P">>)]

RECURSIVE SeqsUpTo(_, _)
\* All sequences over S of length at most n.
SeqsUpTo(S, n) ==
    IF n = 0 THEN {<<>>}
    ELSE LET shorter == SeqsUpTo(S, n - 1)
         IN  shorter \cup {Append(s, x) : s \in shorter, x \in S}

(***************************************************************************)
(* Responses of the service.                                               *)
(***************************************************************************)
\* Session tokens the service hands out.
Tokens == {Str(<<"s","1">>), Str(<<"s","2">>)}

\* Responses to the POST of term/search: the transport fails, the status is
\* not a success, or the response carries a cookie jar.
SessionResponses ==
    {[error |-> "transport"], [error |-> "status"]}
    \cup {[error |-> "none", cookies |-> EmptyDict],
          [error |-> "none", cookies |-> [JSESSIONID |-> Str(<<>>)]]}
    \cup {[error |-> "none", cookies |-> [JSESSIONID |-> tok]] : tok \in Tokens}

\* The JSON bodies of a catalog page: 'data' and 'totalCount' may be absent.
PageBodies(datas, totals) ==
    {[data |-> d, totalCount |-> n] : d \in datas, n \in totals}
    \cup {[data |-> d] : d \in datas}
    \cup {[totalCount |-> n] : n \in totals}
    \cup {EmptyDict}

\* What the service may answer to a page request at offset `off` with page
\* size `size`, the client holding `have` records.  An unconstrained service
\* ("any", and "drifting", which also remembers the count it reported last)
\* fails or sends any list of summaries and any count; a paging service holds
\* server.held records and sends the slice that was asked for; a "catalog"
\* service does the same with the short list server.records.
PageResponses(off, size, have) ==
    IF server.mode \in {"any", "drifting"}
    THEN {[error |-> "transport"], [error |-> "status"]}
         \cup {[error |-> "none", json |-> b] :
                 b \in PageBodies(SeqsUpTo(Summaries, MaxCourses - have),
                                  0 .. MaxCourses)}
    ELSE IF server.mode = "paging"
    THEN LET last == IF off + size < server.held THEN off + size ELSE server.held
             n    == IF last > off THEN last - off ELSE 0
         IN  {[error |-> "none",
               json  |-> [data |-> [i \in 1 .. n |-> HeldCourse(off + i - 1)],
                          totalCount |-> server.held]]}
    ELSE LET held == Len(server.records)
             last == IF off + size < held THEN off + size ELSE held
         IN  {[error |-> "none",
               json  |-> [data |-> SubSeq(server.records, off + 1, last),
                          totalCount |-> held]]}

\* The service after it answered a page request with resp: a drifting service
\* remembers the totalCount it reported (None when the body had none).
ServerAfter(resp) ==
    IF server.mode = "drifting" /\ resp.error = "none"
    THEN [server EXCEPT !.reported =
            IF "totalCount" \in DOMAIN resp.json
            THEN Num(resp.json.totalCount) ELSE None]
    ELSE server

\* A getClassDetails JSON body that is data.
DetailData == Dict([courseTitle |-> Str(<<"I","n","t","r","o">>)])

\* Responses to a getClassDetails request: failures, an empty body, or a
\* JSON body (an object with data, the empty object).
DetailResponses ==
    {[error |-> "transport"], [error |-> "status"],
     [error |-> "none", text |-> FALSE]}
    \cup {[error |-> "none", text |-> TRUE, json |-> j] :
            j \in {DetailData, Dict(EmptyDict)}}

\* Responses to a getFacultyMeetingTimes request: failures, an empty body, or
\* a JSON body (an object with a filled 'fmt', an empty 'fmt', no 'fmt').
MeetingResponses ==
    {[error |-> "transport"], [error |-> "status"],
     [error |-> "none", text |-> FALSE]}
    \cup {[error |-> "none", text |-> TRUE, json |-> j] :
            j \in {Dict([fmt |-> List(<<FacultyMeeting>>)]),
                   Dict([fmt |-> List(<<>>)]),
                   Dict([term |-> Str(<<"2","0","2","5","1","0">>)])}}

\* The formats fetch_courses is called with.
Formats == {"excel", "csv", "json", "xml"}

(***************************************************************************)
(* LeopardWebClient methods, as functions of the response received.        *)
(***************************************************************************)
\* The history entry of the POST of term/search: with the outcome, the
\* JSESSIONID cookie the response carried (None: no such cookie).
SentSession(resp) ==
    [kind |-> "session", request |-> [mode |-> "search"], outcome |-> resp.error,
     cookie |-> IF resp.error = "none"
                THEN DictGet(resp.cookies, "JSESSIONID", None) ELSE None]

\* Faulty variant: the missing cookie is not checked.
initialize_unchecked(resp, cookie) ==
    IF resp.error # "none"
    THEN [raises |-> "Failed to initialize search session", session_cookie |-> cookie]
    ELSE [raises |-> "",
          session_cookie |-> DictGet(resp.cookies, "JSESSIONID", None)]

\* initialize_search_session: [raises, session_cookie] for a response.
initialize_search_session(resp, cookie) ==
    IF resp.error # "none"
    THEN [raises |-> "Failed to initialize search session", session_cookie |-> cookie]
    ELSE LET jsessionid == DictGet(resp.cookies, "JSESSIONID", None)
         IN  IF ~Truthy(jsessionid)
             THEN [raises |-> "Failed to obtain session cookie", session_cookie |-> cookie]
             ELSE [raises |-> "", session_cookie |-> jsessionid]

\* page_size of get_course_catalog.
page_size == 500

\* str(v), as an f-string formats a scalar.
Format(v) ==
    CASE v.t = "str"  -> v.s
      [] v.t = "None" -> <<"N","o","n","e">>
      [] v.t = "bool" -> IF v.b THEN <<"T","r","u","e">>
                         ELSE <<"F","a","l","s","e">>
      [] v.t = "int"  -> IF v.n >= 0 THEN Decimal(v.n)
                         ELSE <<"-">> \o Decimal(0 - v.n)

\* f"JSESSIONID={self.session_cookie}"
CookieHeader(cookie) ==
    Str(<<"J","S","E","S","S","I","O","N","I","D","=">> \o Format(cookie))

\* The query parameters and the cookie header fetch_catalog_page sends.
PageRequest(off, size, cookie) ==
    [pageOffset |-> off, pageMaxSize |-> size, Cookie |-> CookieHeader(cookie)]

\* The query parameters of a detail lookup, and the record it is made for.
LookupRequest(crn, index) == [courseReferenceNumber |-> crn, index |-> index]

\* An entry of the request history: the endpoint, what was sent, and how the
\* request ended ("none": a success status; "transport"; "status").  The
\* outcome of a detail lookup is kept in last_lookup and not here.
Sent(kind, request, outcome) ==
    [kind |-> kind, request |-> request, outcome |-> outcome]

\* Faulty variant: a failed page request is absorbed as an empty page, the way the
\* detail lookups absorb theirs.
fetch_catalog_page_absorbing(resp, cookie) ==
    IF ~Truthy(cookie)
    THEN [raises |-> "Session not initialized", sent |-> FALSE, json |-> EmptyDict]
    ELSE IF resp.error # "none"
    THEN [raises |-> "", sent |-> TRUE, json |-> EmptyDict]
    ELSE [raises |-> "", sent |-> TRUE, json |-> resp.json]

\* Faulty variant: the request is sent whether or not a session token is set.
fetch_catalog_page_unguarded(resp, cookie) ==
    IF resp.error # "none"
    THEN [raises |-> "Failed to fetch catalog page", sent |-> TRUE, json |-> EmptyDict]
    ELSE [raises |-> "", sent |-> TRUE, json |-> resp.json]

\* fetch_catalog_page: [raises, sent, json] for a response.
fetch_catalog_page(resp, cookie) ==
    IF ~Truthy(cookie)
    THEN [raises |-> "Session not initialized", sent |-> FALSE, json |-> EmptyDict]
    ELSE IF resp.error # "none"
    THEN [raises |-> "Failed to fetch catalog page", sent |-> TRUE, json |-> EmptyDict]
    ELSE [raises |-> "", sent |-> TRUE, json |-> resp.json]

\* Faulty variant: the RequestException is not caught.
get_class_details_uncaught(resp) ==
    IF resp.error # "none" THEN [raises |-> "RequestException", value |-> None]
    ELSE IF resp.text THEN [raises |-> "", value |-> resp.json]
    ELSE [raises |-> "", value |-> None]

\* get_class_details: [raises, value]; the value is the JSON body, or None
\* on a caught failure or an empty body.
get_class_details(resp) ==
    IF resp.error # "none" THEN [raises |-> "", value |-> None]
    ELSE IF resp.text THEN [raises |-> "", value |-> resp.json]
    ELSE [raises |-> "", value |-> None]

\* get_faculty_meeting_times: [raises, value], as get_class_details.
get_faculty_meeting_times(resp) ==
    IF resp.error # "none" THEN [raises |-> "", value |-> None]
    ELSE IF resp.text THEN [raises |-> "", value |-> resp.json]
    ELSE [raises |-> "", value |-> None]

\* Faulty variant: the new page is put in front of the accumulated records.
ExtendInFront(list, courses) == courses \o list

\* all_courses.extend(courses)
Extend(list, courses) == list \o courses

\* Faulty variant: the count test stops one record early.
LoopDoneOneEarly(list, total, courses) ==
    Len(list) >= total - 1 \/ courses = <<>>

\* Faulty variant: the loop stops on an empty page only.
LoopDoneEmptyOnly(list, total, courses) == courses = <<>>

\* Faulty variant: the loop stops on the count only.
LoopDoneCountOnly(list, total, courses) == Len(list) >= total

\* The loop test of get_course_catalog: break when it holds.
LoopDone(list, total, courses) == Len(list) >= total \/ courses = <<>>

\* Faulty variant: the details are merged into the summary (course.update(details)).
AttachDetailsMerging(course, details) ==
    IF Truthy(details)
    THEN [k \in DOMAIN course \cup DOMAIN details.d |->
            IF k \in DOMAIN details.d THEN details.d[k] ELSE course[k]]
    ELSE course

\* Faulty variant: a record is looked up whenever it has the key, even an empty one.
HasCrnKey(course) == "courseReferenceNumber" \in DOMAIN course

\* if details: course["_detailed"] = details
AttachDetails(course, details) ==
    IF Truthy(details) THEN DictSet(course, "_detailed", details) ELSE course

\* Faulty variant: meeting times are attached only to a record that got details.
AttachMeetingTimesAfterDetails(course, meeting_times) ==
    IF /\ "_detailed" \in DOMAIN course
       /\ Truthy(meeting_times) /\ Truthy(DictGet(meeting_times.d, "fmt", None))
    THEN DictSet(course, "_faculty_meeting_times", meeting_times.d["fmt"])
    ELSE course

\* Faulty variant: the fmt list replaces the summary's embedded meeting entries.
AttachMeetingTimesReplacing(course, meeting_times) ==
    IF Truthy(meeting_times) /\ Truthy(DictGet(meeting_times.d, "fmt", None))
    THEN DictSet(course, "meetingsFaculty", meeting_times.d["fmt"])
    ELSE course

\* Faulty variant: the fmt list is attached whenever the body has one, empty or not.
AttachMeetingTimesAnyFmt(course, meeting_times) ==
    IF Truthy(meeting_times) /\ "fmt" \in DOMAIN meeting_times.d
    THEN DictSet(course, "_faculty_meeting_times", meeting_times.d["fmt"])
    ELSE course

\* if meeting_times and meeting_times.get("fmt"):
\*     course["_faculty_meeting_times"] = meeting_times["fmt"]
AttachMeetingTimes(course, meeting_times) ==
    IF Truthy(meeting_times) /\ Truthy(DictGet(meeting_times.d, "fmt", None))
    THEN DictSet(course, "_faculty_meeting_times", meeting_times.d["fmt"])
    ELSE course

\* The lookups run for a record: those for a truthy course-reference-number.
HasCrn(course) == Truthy(DictGet(course, "courseReferenceNumber", None))

\* Faulty variant: total_count follows the totalCount of every page.
CaptureTotalEveryPage(total, json) == Num(DictGet(json, "totalCount", 0))

\* total_count is taken from the first page only (missing: 0).
CaptureTotal(total, json) ==
    IF total = None THEN Num(DictGet(json, "totalCount", 0)) ELSE total

\* Faulty variant: the offset is not advanced, the same page is asked for again.
NextOffsetStuck(off, size) == off

\* Faulty variant: the offset counts pages, not records.
NextOffsetByOne(off, size) == off + 1

\* offset += page_size
NextOffset(off, size) == off + size

\* The save_as_* function fetch_courses dispatches to; "" for ValueError.
SerializerFor(format) ==
    CASE format = "excel" -> "save_as_excel"
      [] format = "csv"   -> "save_as_csv"
      [] format = "json"  -> "save_as_json"
      [] OTHER            -> ""

(***************************************************************************)
(* flatten_course_data.  A result is [raises, record]: raises names the    *)
(* exception that leaves the function ("" for none), record is the dict    *)
(* returned.                                                               *)
(***************************************************************************)
\* Characters str.strip() removes.
Whitespace == {" ", "\t", "\n", "\r"}

RECURSIVE LStrip(_)
LStrip(s) == IF s # <<>> /\ Head(s) \in Whitespace THEN LStrip(Tail(s)) ELSE s

RECURSIVE RStrip(_)
RStrip(s) ==
    IF s # <<>> /\ s[Len(s)] \in Whitespace
    THEN RStrip(SubSeq(s, 1, Len(s) - 1)) ELSE s

\* s.strip()
Strip(s) == RStrip(LStrip(s))

RECURSIVE Join(_, _)
\* sep.join(parts) for a list of strings.
Join(sep, parts) ==
    IF parts = <<>> THEN <<>>
    ELSE IF Len(parts) = 1 THEN parts[1]
    ELSE parts[1] \o sep \o Join(sep, Tail(parts))

\* ", "
CommaSpace == <<",", " ">>

\* The day keys of a meetingTime, in the order the code walks them.
WeekDays == <<"monday", "tuesday", "wednesday", "thursday", "friday",
              "saturday", "sunday">>

\* day[0].upper()
DayInitial == [monday |-> "M", tuesday |-> "T", wednesday |-> "W",
               thursday |-> "T", friday |-> "F", saturday |-> "S",
               sunday |-> "S"]

RECURSIVE DaysFrom(_, _)
\* The initials of the days of WeekDays[i ..] that mt flags.
DaysFrom(mt, i) ==
    IF i > Len(WeekDays) THEN <<>>
    ELSE (IF Truthy(DictGet(mt, WeekDays[i], None))
          THEN <<DayInitial[WeekDays[i]]>> ELSE <<>>) \o DaysFrom(mt, i + 1)

\* The location of one faculty-meeting-time entry: a value, falsy for none.
FacultyLocation(mt) ==
    LET building      == DictGet(mt, "building", Str(<<>>))
        building_desc == DictGet(mt, "buildingDescription", Str(<<>>))
        room          == DictGet(mt, "room", Str(<<>>))
        location      == IF Truthy(building_desc) THEN building_desc ELSE building
    IN  IF Truthy(room)
        THEN Str(Strip(Format(location) \o <<" ">> \o Format(room)))
        ELSE location

\* The location of one embedded meeting entry: a value, falsy for none.
EmbeddedLocation(mt) ==
    LET building == DictGet(mt, "building", Str(<<>>))
        room     == DictGet(mt, "room", Str(<<>>))
    IN  IF Truthy(building) \/ Truthy(room)
        THEN Str(Strip(Format(building) \o <<" ">> \o Format(room)))
        ELSE Str(<<>>)

\* Faulty variant: the day-string of an entry is appended even when it is empty.
AddMeetingAlwaysDays(acc, mt, embedded) ==
    LET days       == DaysFrom(mt, 1)
        begin_time == DictGet(mt, "beginTime", Str(<<>>))
        end_time   == DictGet(mt, "endTime", Str(<<>>))
        building   == DictGet(mt, "building", Str(<<>>))
        room       == DictGet(mt, "room", Str(<<>>))
        location   == IF embedded THEN EmbeddedLocation(mt) ELSE FacultyLocation(mt)
        located    == IF embedded THEN Truthy(building) \/ Truthy(room)
                      ELSE Truthy(location)
    IN  [raises    |-> "",
         days      |-> Append(acc.days, Str(days)),
         times     |-> IF Truthy(begin_time) /\ Truthy(end_time)
                       THEN Append(acc.times,
                                   Str(Format(begin_time) \o <<"-">> \o Format(end_time)))
                       ELSE acc.times,
         locations |-> IF located THEN Append(acc.locations, location)
                       ELSE acc.locations]

\* The three lists after one more meeting entry; `embedded` tells the branch.
\* The location of the embedded branch is appended whenever building or room
\* is truthy, that of the faculty branch when the location is truthy.
AddMeeting(acc, mt, embedded) ==
    LET days       == DaysFrom(mt, 1)
        begin_time == DictGet(mt, "beginTime", Str(<<>>))
        end_time   == DictGet(mt, "endTime", Str(<<>>))
        building   == DictGet(mt, "building", Str(<<>>))
        room       == DictGet(mt, "room", Str(<<>>))
        location   == IF embedded THEN EmbeddedLocation(mt) ELSE FacultyLocation(mt)
        located    == IF embedded THEN Truthy(building) \/ Truthy(room)
                      ELSE Truthy(location)
    IN  [raises    |-> "",
         days      |-> IF days # <<>> THEN Append(acc.days, Str(days)) ELSE acc.days,
         times     |-> IF Truthy(begin_time) /\ Truthy(end_time)
                       THEN Append(acc.times,
                                   Str(Format(begin_time) \o <<"-">> \o Format(end_time)))
                       ELSE acc.times,
         locations |-> IF located THEN Append(acc.locations, location)
                       ELSE acc.locations]

RECURSIVE CollectMeetings(_, _, _)
\* The for loop over the meeting entries: entry.get / mt.get raise
\* AttributeError on a value that is no dict.
CollectMeetings(entries, embedded, acc) ==
    IF entries = <<>> THEN acc
    ELSE LET entry == Head(entries)
         IN  IF entry.t # "dict"
             THEN [acc EXCEPT !.raises = "AttributeError"]
             ELSE LET mt == DictGet(entry.d, "meetingTime", Dict(EmptyDict))
                  IN  IF mt.t # "dict"
                      THEN [acc EXCEPT !.raises = "AttributeError"]
                      ELSE CollectMeetings(Tail(entries), embedded,
                                           AddMeeting(acc, mt.d, embedded))

NoMeetings == [raises |-> "", days |-> <<>>, times |-> <<>>, locations |-> <<>>]

\* Faulty variant: the embedded entries are tried first, the attached ones
\* are the fallback.
MeetingsEmbeddedFirst(course) ==
    LET attached == DictGet(course, "_faculty_meeting_times", None)
        embedded == DictGet(course, "meetingsFaculty", None)
    IN  IF Truthy(embedded)
        THEN IF embedded.t # "list"
             THEN [NoMeetings EXCEPT !.raises = "TypeError"]
             ELSE CollectMeetings(embedded.l, TRUE, NoMeetings)
        ELSE IF Truthy(attached)
        THEN IF attached.t # "list"
             THEN [NoMeetings EXCEPT !.raises = "TypeError"]
             ELSE CollectMeetings(attached.l, FALSE, NoMeetings)
        ELSE NoMeetings

\* The if / elif over the two meeting sources.  Iterating a truthy value
\* that is no list ends in an exception.
Meetings(course) ==
    LET attached == DictGet(course, "_faculty_meeting_times", None)
        embedded == DictGet(course, "meetingsFaculty", None)
    IN  IF Truthy(attached)
        THEN IF attached.t # "list"
             THEN [NoMeetings EXCEPT !.raises = "TypeError"]
             ELSE CollectMeetings(attached.l, FALSE, NoMeetings)
        ELSE IF Truthy(embedded)
        THEN IF embedded.t # "list"
             THEN [NoMeetings EXCEPT !.raises = "TypeError"]
             ELSE CollectMeetings(embedded.l, TRUE, NoMeetings)
        ELSE NoMeetings

RECURSIVE CollectFaculty(_, _)
\* The for loop over course["faculty"].
CollectFaculty(entries, acc) ==
    IF entries = <<>> THEN acc
    ELSE LET faculty == Head(entries)
         IN  IF faculty.t # "dict"
             THEN [acc EXCEPT !.raises = "AttributeError"]
             ELSE LET display_name == DictGet(faculty.d, "displayName", Str(<<>>))
                  IN  CollectFaculty(Tail(entries),
                        IF Truthy(display_name)
                        THEN [acc EXCEPT !.names = Append(@, display_name)]
                        ELSE acc)

FacultyNames(course) ==
    LET faculty == DictGet(course, "faculty", None)
    IN  IF Truthy(faculty)
        THEN IF faculty.t # "list"
             THEN [raises |-> "TypeError", names |-> <<>>]
             ELSE CollectFaculty(faculty.l, [raises |-> "", names |-> <<>>])
        ELSE [raises |-> "", names |-> <<>>]

\* ", ".join(values) if values else "": [raises, value]; str.join raises
\* TypeError on an item that is no string.
JoinValues(values) ==
    IF \E i \in 1 .. Len(values) : values[i].t # "str"
    THEN [raises |-> "TypeError", value |-> Str(<<>>)]
    ELSE [raises |-> "",
          value  |-> Str(Join(CommaSpace, [i \in 1 .. Len(values) |-> values[i].s]))]

\* The columns of a FlatRecord, in order.
FlatFields ==
    <<"CRN", "Subject", "Course Number", "Section", "Title", "Credit Hours",
      "Schedule Type", "Instructional Method", "Faculty", "Meeting Days",
      "Meeting Times", "Location", "Campus", "Enrollment Current",
      "Enrollment Max", "Seats Available", "Waitlist Current", "Waitlist Max">>

\* The summary key each pass-through column reads.
FlatSource ==
    [k \in {"CRN", "Subject", "Course Number", "Section", "Title",
            "Credit Hours", "Schedule Type", "Instructional Method", "Campus",
            "Enrollment Current", "Enrollment Max", "Seats Available",
            "Waitlist Current", "Waitlist Max"} |->
        CASE k = "CRN" -> "courseReferenceNumber"
          [] k = "Subject" -> "subject"
          [] k = "Course Number" -> "courseNumber"
          [] k = "Section" -> "sequenceNumber"
          [] k = "Title" -> "courseTitle"
          [] k = "Credit Hours" -> "creditHours"
          [] k = "Schedule Type" -> "scheduleTypeDescription"
          [] k = "Instructional Method" -> "instructionalMethod"
          [] k = "Campus" -> "campusDescription"
          [] k = "Enrollment Current" -> "enrollment"
          [] k = "Enrollment Max" -> "maximumEnrollment"
          [] k = "Seats Available" -> "seatsAvailable"
          [] k = "Waitlist Current" -> "waitCount"
          [] k = "Waitlist Max" -> "waitCapacity"]

flatten_course_data(course) ==
    LET names    == FacultyNames(course)
        meetings == IF names.raises # "" THEN NoMeetings ELSE Meetings(course)
        faculty  == JoinValues(names.names)
        days     == JoinValues(meetings.days)
        times    == JoinValues(meetings.times)
        location == JoinValues(meetings.locations)
        raises   == IF names.raises # "" THEN names.raises
                    ELSE IF meetings.raises # "" THEN meetings.raises
                    ELSE IF faculty.raises # "" THEN faculty.raises
                    ELSE IF days.raises # "" THEN days.raises
                    ELSE IF times.raises # "" THEN times.raises
                    ELSE location.raises
    IN  IF raises # ""
        THEN [raises |-> raises, record |-> EmptyDict]
        ELSE [raises |-> "",
              record |->
                [k \in {FlatFields[i] : i \in 1 .. Len(FlatFields)} |->
                    CASE k = "Faculty" -> faculty.value
                      [] k = "Meeting Days" -> days.value
                      [] k = "Meeting Times" -> times.value
                      [] k = "Location" -> location.value
                      [] OTHER -> DictGet(course, FlatSource[k], Str(<<>>))]]

(***************************************************************************)
(* CourseSummaries flatten_course_data is called on: any subset of the     *)
(* sub-fields of a meeting entry absent or null, either meeting source     *)
(* absent, null, empty or filled.                                          *)
(***************************************************************************)
\* Most meeting entries in the varied meeting source of a summary.
MaxMeetings == 2

\* The union of two key -> value mappings with disjoint keys.
Merge(f, g) ==
    [k \in DOMAIN f \cup DOMAIN g |-> IF k \in DOMAIN f THEN f[k] ELSE g[k]]

\* Day flags of a meetingTime: none; Monday, Wednesday and Friday; Tuesday,
\* Thursday and Sunday beside a null Monday.
DayFlags ==
    {EmptyDict,
     [monday |-> Bool(TRUE), tuesday |-> Bool(FALSE), wednesday |-> Bool(TRUE),
      friday |-> Bool(TRUE)],
     [monday |-> None, tuesday |-> Bool(TRUE), thursday |-> Bool(TRUE),
      sunday |-> Bool(TRUE)]}

\* Times and place of a meetingTime: all given; a null endTime and a building
\* code alone; no times, a null building and a room.
TimesAndPlaces ==
    {[beginTime |-> Str(<<"0","8","0","0">>), endTime |-> Str(<<"0","9","2","0">>),
      building |-> Str(<<"B","E","A","T","T">>),
      buildingDescription |-> Str(<<"B","e","a","t","t","y">>),
      room |-> Str(<<"4","0","1">>)],
     [beginTime |-> Str(<<"1","0","0","0">>), endTime |-> None,
      building |-> Str(<<"W","E","N","T">>)],
     [building |-> None, room |-> Str(<<"1","0","0">>)]}

\* Meeting entries: a meetingTime object, a null meetingTime, no meetingTime.
MeetingEntries ==
    {Dict([meetingTime |-> Dict(Merge(d, r))]) : d \in DayFlags, r \in TimesAndPlaces}
    \cup {Dict([meetingTime |-> None]), Dict(EmptyDict)}

\* A key that is not in the dict.
Absent == [t |-> "absent"]

\* The varied meeting source, and the few values the other source takes.
MeetingLists == {List(l) : l \in SeqsUpTo(MeetingEntries, MaxMeetings)}

FewAttached == {Absent, None, List(<<FacultyMeeting>>)}

FewEmbedded == {Absent, List(<<EmbeddedMeeting>>)}

\* Summaries without meetings: one with nothing but a subject, one with a
\* null field, an absent one and faculty entries with a null, an absent and
\* a given displayName.
Shells ==
    {[subject |-> Str(<<"C","O","M","P">>)],
     [courseReferenceNumber |-> Str(<<"1","1">>),
      courseTitle |-> Str(<<"C","S">>),
      creditHours |-> None,
      enrollment |-> Num(20),
      faculty |-> List(<<Dict([displayName |-> None]), Dict(EmptyDict),
                         Dict([displayName |-> Str(<<"A","."," ","S","m","i","t","h">>)])>>)]}

\* course[key] = value, or the course as it is for an absent value.
WithKey(course, key, value) ==
    IF value = Absent THEN course ELSE DictSet(course, key, value)

WithSources(shell, attached, embedded) ==
    WithKey(WithKey(shell, "_faculty_meeting_times", attached),
            "meetingsFaculty", embedded)

FlattenInputs ==
    {WithSources(shell, attached, embedded) :
        shell \in Shells, attached \in MeetingLists, embedded \in FewEmbedded}
    \cup {WithSources(shell, attached, embedded) :
        shell \in Shells, attached \in FewAttached, embedded \in MeetingLists}

(***************************************************************************)
(* The state machine: one run of fetch_courses on a fresh client.          *)
(***************************************************************************)
InitFields ==
    /\ session_cookie = None
    /\ all_courses = <<>>
    /\ offset = 0
    /\ total_count = None
    /\ course_index = 0
    /\ returned = None
    /\ raised = ""
    /\ serializer = ""
    /\ exit_code = -1
    /\ requests = <<>>
    /\ page_data = <<>>
    /\ last_lookup = [index |-> 0]
    /\ flat_result = None

\* The state fetch_courses starts in.
InitCommon ==
    /\ pc = "start"
    /\ flat_course = None
    /\ InitFields

\* Any service behaviour, with or without enrichment.
Init ==
    /\ InitCommon
    /\ detailed \in BOOLEAN
    /\ server = [mode |-> "any"]

\* A service that pages exactly through the records it holds; quick mode.
InitPaging ==
    /\ InitCommon
    /\ detailed = FALSE
    /\ server \in {[mode |-> "paging", held |-> n] : n \in 0 .. MaxHeld}

\* fetch_courses' except clause: print the error, sys.exit(1).
Abort(message) ==
    /\ raised' = message
    /\ exit_code' = 1
    /\ pc' = "exit"

\* get_course_catalog up to the loop: initialize_search_session(term).
InitializeSession ==
    /\ pc = "start"
    /\ \E resp \in SessionResponses :
         LET r == initialize_search_session(resp, session_cookie)
         IN  /\ requests' = Append(requests, SentSession(resp))
             /\ session_cookie' = r.session_cookie
             /\ IF r.raises # ""
                THEN Abort(r.raises)
                ELSE /\ pc' = "paging"
                     /\ UNCHANGED <<raised, exit_code>>
    /\ UNCHANGED <<detailed, server, all_courses, offset, total_count,
                   course_index, returned, serializer, page_data, last_lookup,
                   flat_course, flat_result>>

\* One iteration of the while loop of get_course_catalog, and on break the
\* test that decides between the enrichment pass and the return.
FetchPage ==
    /\ pc = "paging"
    /\ \E resp \in PageResponses(offset, page_size, Len(all_courses)) :
         LET r       == fetch_catalog_page(resp, session_cookie)
             courses == DictGet(r.json, "data", <<>>)
             total   == CaptureTotal(total_count, r.json)
             list    == Extend(all_courses, courses)
         IN  /\ server' = ServerAfter(resp)
             /\ requests' = IF r.sent
                            THEN Append(requests,
                                   Sent("page",
                                        PageRequest(offset, page_size, session_cookie),
                                        resp.error))
                            ELSE requests
             /\ IF r.raises # ""
                THEN /\ Abort(r.raises)
                     /\ UNCHANGED <<all_courses, offset, total_count,
                                    course_index, returned, page_data>>
                ELSE /\ all_courses' = list
                     /\ total_count' = total
                     /\ page_data' = Append(page_data, courses)
                     /\ UNCHANGED <<raised, exit_code>>
                     /\ IF LoopDone(list, total.n, courses)
                        THEN /\ offset' = offset
                             /\ IF detailed /\ list # <<>>
                                THEN /\ pc' = "enriching"
                                     /\ course_index' = 1
                                     /\ returned' = returned
                                ELSE /\ pc' = "returned"
                                     /\ course_index' = course_index
                                     /\ returned' = List(list)
                        ELSE /\ offset' = NextOffset(offset, page_size)
                             /\ pc' = "paging"
                             /\ UNCHANGED <<course_index, returned>>
    /\ UNCHANGED <<detailed, session_cookie, serializer, last_lookup,
                   flat_course, flat_result>>

\* One iteration of the for loop of get_course_catalog: both lookups of the
\* record at course_index, and after the last record the return.  An
\* exception leaving a lookup would leave get_course_catalog.
EnrichCourse ==
    /\ pc = "enriching"
    /\ LET course == all_courses[course_index]
           crn    == DictGet(course, "courseReferenceNumber", None)
           last   == course_index = Len(all_courses)
       IN  IF HasCrn(course)
           THEN \E dresp \in DetailResponses, mresp \in MeetingResponses :
                  LET details       == get_class_details(dresp)
                      with_details  == AttachDetails(course, details.value)
                      meeting_times == get_faculty_meeting_times(mresp)
                      enriched      == AttachMeetingTimes(with_details,
                                                          meeting_times.value)
                      sent_details  == Sent("details",
                                            LookupRequest(crn, course_index), "")
                      sent_meetings == Sent("meetings",
                                            LookupRequest(crn, course_index), "")
                  IN  IF details.raises # ""
                      THEN /\ Abort(details.raises)
                           /\ requests' = Append(requests, sent_details)
                           /\ UNCHANGED <<all_courses, course_index, returned,
                                          last_lookup>>
                      ELSE IF meeting_times.raises # ""
                      THEN /\ Abort(meeting_times.raises)
                           /\ requests' = requests \o <<sent_details, sent_meetings>>
                           /\ all_courses' =
                                [all_courses EXCEPT ![course_index] = with_details]
                           /\ UNCHANGED <<course_index, returned, last_lookup>>
                      ELSE /\ all_courses' =
                                [all_courses EXCEPT ![course_index] = enriched]
                           /\ requests' = requests \o <<sent_details, sent_meetings>>
                           /\ last_lookup' = [index |-> course_index,
                                              details |-> dresp, meetings |-> mresp]
                           /\ pc' = IF last THEN "returned" ELSE "enriching"
                           /\ returned' = IF last THEN List(all_courses') ELSE returned
                           /\ course_index' =
                                IF last THEN course_index ELSE course_index + 1
                           /\ UNCHANGED <<raised, exit_code>>
           ELSE /\ pc' = IF last THEN "returned" ELSE "enriching"
                /\ returned' = IF last THEN List(all_courses) ELSE returned
                /\ course_index' = IF last THEN course_index ELSE course_index + 1
                /\ UNCHANGED <<all_courses, requests, last_lookup, raised,
                               exit_code>>
    /\ UNCHANGED <<detailed, server, session_cookie, offset, total_count,
                   serializer, page_data, flat_course, flat_result>>

\* fetch_courses after get_course_catalog returned: the format dispatch.
Save ==
    /\ pc = "returned"
    /\ \E format \in Formats :
         /\ serializer' = SerializerFor(format)
         /\ exit_code' = IF SerializerFor(format) = "" THEN 1 ELSE 0
    /\ pc' = "exit"
    /\ UNCHANGED <<detailed, server, session_cookie, all_courses, offset,
                   total_count, course_index, returned, raised, requests,
                   page_data, last_lookup, flat_course, flat_result>>

Next == InitializeSession \/ FetchPage \/ EnrichCourse \/ Save

\* The run without the enrichment pass (detailed = False).
NextCatalog == InitializeSession \/ FetchPage \/ Save

Spec == Init /\ [][Next]_vars

\* Any service behaviour, quick mode: the session and the page loop alone.
InitCatalog ==
    /\ InitCommon
    /\ detailed = FALSE
    /\ server = [mode |-> "any"]

\* The program is sequential and every request is answered (or fails), so a
\* step that can be taken is taken.
FairSpec == Spec /\ WF_vars(Next)

FairCatalog == InitCatalog /\ [][NextCatalog]_vars /\ WF_vars(NextCatalog)

SpecPaging == InitPaging /\ [][NextCatalog]_vars

\* A service whose reported totalCount changes from one page to the next;
\* quick mode.
InitDrift ==
    /\ InitCommon
    /\ detailed = FALSE
    /\ server = [mode |-> "drifting", reported |-> None]

SpecDrift == InitDrift /\ [][NextCatalog]_vars

\* A service holding a short catalog of records with, with an empty and
\* without a course-reference-number; with or without enrichment.
InitEnrich ==
    /\ InitCommon
    /\ detailed \in BOOLEAN
    /\ server \in {[mode |-> "catalog", records |-> held] :
                      held \in SeqsUpTo(CatalogSummaries, MaxCatalog)}

\* get_course_catalog alone, up to its return.
NextGetCatalog == InitializeSession \/ FetchPage \/ EnrichCourse

SpecEnrich == InitEnrich /\ [][NextGetCatalog]_vars

(***************************************************************************)
(* flatten_course_data called on one summary.                              *)
(***************************************************************************)
InitFlatten ==
    /\ pc = "flatten"
    /\ flat_course \in FlattenInputs
    /\ InitFields
    /\ detailed = FALSE
    /\ server = [mode |-> "any"]

\* The call flatten_course_data(course).  The function assigns to locals
\* only, so the argument is what it was.
Flatten ==
    /\ pc = "flatten"
    /\ flat_result' = flatten_course_data(flat_course)
    /\ pc' = "flattened"
    /\ UNCHANGED <<detailed, server, session_cookie, all_courses, offset,
                   total_count, course_index, returned, raised, serializer,
                   exit_code, requests, page_data, last_lookup, flat_course>>

SpecFlatten == InitFlatten /\ [][Flatten]_vars

(***************************************************************************)
(* A caller that uses the client's two session-bound methods in any order. *)
(***************************************************************************)
\* Most requests such a caller has sent.
MaxCalls == 3

InitClient ==
    /\ pc = "client"
    /\ flat_course = None
    /\ InitFields
    /\ detailed = FALSE
    /\ server = [mode |-> "any"]

\* client.initialize_search_session(term); raised holds the exception that
\* last left a call of the caller.
CallInitialize ==
    /\ pc = "client"
    /\ Len(requests) < MaxCalls
    /\ \E resp \in SessionResponses :
         LET r == initialize_search_session(resp, session_cookie)
         IN  /\ requests' = Append(requests, SentSession(resp))
             /\ session_cookie' = r.session_cookie
             /\ raised' = IF r.raises # "" THEN r.raises ELSE raised
    /\ UNCHANGED <<pc, detailed, server, all_courses, offset, total_count,
                   course_index, returned, serializer, exit_code, page_data,
                   last_lookup, flat_course, flat_result>>

\* client.fetch_catalog_page(term, page_offset, page_size)
CallFetchPage ==
    /\ pc = "client"
    /\ Len(requests) < MaxCalls
    /\ \E page_offset \in {0, page_size} :
       \E resp \in PageResponses(page_offset, page_size, 0) :
         LET r == fetch_catalog_page(resp, session_cookie)
         IN  /\ requests' = IF r.sent
                            THEN Append(requests,
                                   Sent("page",
                                        PageRequest(page_offset, page_size,
                                                    session_cookie),
                                        resp.error))
                            ELSE requests
             /\ raised' = IF r.raises # "" THEN r.raises ELSE raised
    /\ UNCHANGED <<pc, detailed, server, session_cookie, all_courses, offset,
                   total_count, course_index, returned, serializer, exit_code,
                   page_data, last_lookup, flat_course, flat_result>>

NextClient == CallInitialize \/ CallFetchPage

SpecClient == InitClient /\ [][NextClient]_vars

(***************************************************************************)
(* Vocabulary of the claims.                                               *)
(***************************************************************************)
\* The catalog page requests sent so far, in order.
PageRequestsSent == SelectSeq(requests, LAMBDA e : e.kind = "page")

\* The detail lookups sent so far, in order.
LookupsSent == SelectSeq(requests, LAMBDA e : e.kind \in {"details", "meetings"})

\* The 'data' list of the last page response read.
LastPage == page_data[Len(page_data)]

\* The while loop was left through its break.
LoopExited == Len(page_data) > 0 /\ pc # "paging" /\
              raised # "Failed to fetch catalog page"

\* A record without the two attachments of the enrichment pass.
Unenriched(course) ==
    [k \in DOMAIN course \ {"_detailed", "_faculty_meeting_times"} |-> course[k]]

UnenrichedAll(list) == [i \in 1 .. Len(list) |-> Unenriched(list[i])]

\* Record i has had its two lookups sent.
LookedUp(i) ==
    /\ \E k \in 1 .. Len(requests) :
         requests[k].kind = "details" /\ requests[k].request.index = i
    /\ \E k \in 1 .. Len(requests) :
         requests[k].kind = "meetings" /\ requests[k].request.index = i

\* A lookup response that is a success with data to attach.
DetailsDelivered(resp) ==
    resp.error = "none" /\ resp.text /\ Truthy(resp.json)

MeetingsDelivered(resp) ==
    /\ resp.error = "none" /\ resp.text /\ Truthy(resp.json)
    /\ Truthy(DictGet(resp.json.d, "fmt", None))

SessionFailures ==
    {"Failed to initialize search session", "Failed to obtain session cookie"}

(***************************************************************************)
(* The claims.                                                             *)
(***************************************************************************)
\* C1: whatever the service answers, the page loop of get_course_catalog
\* ends, and when it is left through its break either the accumulated record
\* count is at least totalCount or the last page held no record.
C1_LoopTerminates ==
    /\ <>(pc \notin {"start", "paging"})
    /\ [](LoopExited =>
            (Len(all_courses) >= total_count.n \/ LastPage = <<>>))

\* C1 witness: the loop was left on its second page, which was empty, with
\* fewer records than totalCount.
C1_Witness ==
    /\ LoopExited /\ Len(page_data) = 2
    /\ LastPage = <<>> /\ Len(all_courses) < total_count.n

\* C2 as stated: when the first page reports totalCount = 0, one page request
\* is issued and the empty sequence is returned, whatever 'data' holds.
C2_Original ==
    (returned # None /\ total_count = Num(0)) =>
        (Len(PageRequestsSent) = 1 /\ returned.l = <<>>)

\* C2 amended: when the first page reports totalCount = 0, exactly one page
\* request is issued and the records returned are those of that response's
\* 'data' list, in order (the empty sequence when that list is empty).
C2_ZeroCountOnePage ==
    (returned # None /\ total_count = Num(0)) =>
        /\ Len(PageRequestsSent) = 1
        /\ Len(page_data) = 1
        /\ UnenrichedAll(returned.l) = page_data[1]
        /\ page_data[1] = <<>> => returned.l = <<>>

\* C2 witness: a first page with totalCount = 0 and a non-empty 'data'.
C2_Witness ==
    returned # None /\ total_count = Num(0) /\ page_data[1] # <<>>

\* C3: from a service that holds a positive number of records, not a
\* multiple of pageSize, and sends exactly the slice asked for, the fetcher
\* issues ceil(totalCount / pageSize) page requests and ends with totalCount
\* records.
C3_PagingExact ==
    (returned # None /\ server.held > 0 /\ server.held % page_size # 0) =>
        /\ Len(PageRequestsSent) = (server.held + page_size - 1) \div page_size
        /\ Len(all_courses) = server.held
        /\ total_count = Num(server.held)

\* C3 witness: a catalog of more than two pages was fetched in three requests.
C3_Witness ==
    /\ returned # None /\ server.held > 2 * page_size
    /\ server.held % page_size # 0 /\ Len(PageRequestsSent) = 3

\* C4 as stated: after a page with fewer records than pageSize, the count
\* still below totalCount, the loop has stopped.
C4_Original ==
    ~(/\ pc = "paging" /\ page_data # <<>>
      /\ Len(LastPage) < page_size
      /\ Len(all_courses) < total_count.n)

\* C4 amended: a page with zero records stops the loop and is the last page
\* requested; a page with fewer than pageSize records but at least one, the
\* count still below totalCount, does not stop it: the next page is requested.
C4_EmptyPageStops ==
    /\ \A k \in 1 .. Len(page_data) :
         page_data[k] = <<>> =>
            /\ k = Len(page_data)
            /\ pc # "paging"
            /\ Len(PageRequestsSent) = k
    /\ (/\ page_data # <<>> /\ LastPage # <<>>
        /\ Len(all_courses) < total_count.n
        /\ raised = "") => pc = "paging"

\* C4 witness: a page of one record below totalCount was followed by a second
\* request, whose empty page ended the loop.
C4_Witness ==
    /\ pc = "returned" /\ Len(page_data) = 2 /\ Len(PageRequestsSent) = 2
    /\ Len(page_data[1]) = 1 /\ page_data[2] = <<>>
    /\ total_count = Num(2)

\* C5: the accumulated and the returned records are the concatenation of the
\* pages' 'data' lists in request order; the enrichment pass changes neither
\* the length nor the order, and without it the lists are returned as they
\* came.
C5_PageOrder ==
    /\ UnenrichedAll(all_courses) = Concat(page_data)
    /\ returned # None =>
         /\ UnenrichedAll(returned.l) = Concat(page_data)
         /\ ~detailed => returned.l = Concat(page_data)

\* C5 witness: two different non-empty pages were returned after enrichment
\* attached data.
C5_Witness ==
    /\ returned # None /\ detailed /\ Len(page_data) = 2
    /\ page_data[1] # <<>> /\ page_data[2] # <<>>
    /\ page_data[1] # page_data[2]
    /\ returned.l # Concat(page_data)

\* C6: when the session request fails in transport, has a non-success status
\* or carries no (or an empty) JSESSIONID cookie, the error leaves
\* get_course_catalog, the session token stays unset, and the session request
\* stays the only request: no page request, no lookup, no second attempt.
C6_SessionFailureFatal ==
    (/\ requests # <<>>
     /\ requests[1].outcome # "none" \/ ~Truthy(requests[1].cookie)) =>
        /\ raised \in SessionFailures
        /\ session_cookie = None
        /\ Len(requests) = 1
        /\ returned = None
        /\ serializer = ""
        /\ pc = "exit" /\ exit_code = 1

\* C6 witness: the session response had a success status and no cookie.
C6_Witness ==
    /\ requests # <<>> /\ requests[1].outcome = "none"
    /\ requests[1].cookie = None /\ pc = "exit"

\* C7: a failed page request, at any page index, is the last request of the
\* run: the error leaves get_course_catalog, nothing is returned, and
\* fetch_courses invokes no serializer and exits with status 1.
C7_PageFailureFatal ==
    \A k \in 1 .. Len(requests) :
        (requests[k].kind = "page" /\ requests[k].outcome # "none") =>
            /\ k = Len(requests)
            /\ raised = "Failed to fetch catalog page"
            /\ returned = None
            /\ serializer = ""
            /\ pc = "exit" /\ exit_code = 1

\* C7 witness: the second page request failed after the first page had
\* delivered records.
C7_Witness ==
    /\ Len(PageRequestsSent) = 2 /\ Len(page_data) = 1 /\ all_courses # <<>>
    /\ requests[Len(requests)].outcome = "status"
    /\ raised = "Failed to fetch catalog page"

\* C8: no outcome of a lookup leaves get_course_catalog as an error: once the
\* enrichment pass runs no exception is raised, every record with a
\* course-reference-number before the loop position has had both lookups
\* sent, and the list returned has every fetched record.
C8_LookupFailuresAbsorbed ==
    /\ (pc = "enriching" \/ LookupsSent # <<>>) => raised = ""
    /\ \A i \in 1 .. Len(all_courses) :
         (/\ HasCrn(all_courses[i])
          /\ \/ pc = "enriching" /\ i < course_index
             \/ detailed /\ returned # None) => LookedUp(i)
    /\ returned # None => Len(returned.l) = Len(Concat(page_data))

\* C8 witness: the first record's class-detail lookup attached nothing, and
\* the second record was still looked up and the run returned.
C8_Witness ==
    /\ pc = "returned" /\ detailed /\ Len(all_courses) = 2
    /\ HasCrn(all_courses[1]) /\ "_detailed" \notin DOMAIN all_courses[1]
    /\ last_lookup.index = 2 /\ last_lookup.details.error = "transport"

\* C9: for the record looked up last, class-detail data is attached exactly
\* when the class-detail lookup delivered data, and faculty-meeting-time data
\* exactly when the faculty-meeting-time lookup delivered a non-empty 'fmt';
\* what is attached is what that lookup delivered.
C9_LookupsIndependent ==
    last_lookup.index > 0 =>
        LET course == all_courses[last_lookup.index]
        IN  /\ "_detailed" \in DOMAIN course
                 <=> DetailsDelivered(last_lookup.details)
            /\ "_detailed" \in DOMAIN course
                 => course["_detailed"] = last_lookup.details.json
            /\ "_faculty_meeting_times" \in DOMAIN course
                 <=> MeetingsDelivered(last_lookup.meetings)
            /\ "_faculty_meeting_times" \in DOMAIN course
                 => course["_faculty_meeting_times"]
                      = last_lookup.meetings.json.d["fmt"]

\* C9 witness: class-details answered with a non-success status,
\* faculty-meeting-times delivered data, and the record carries the
\* faculty-meeting-time data and no class-detail data.
C9_Witness ==
    /\ last_lookup.index > 0
    /\ last_lookup.details.error = "status"
    /\ MeetingsDelivered(last_lookup.meetings)
    /\ "_faculty_meeting_times" \in DOMAIN all_courses[last_lookup.index]
    /\ "_detailed" \notin DOMAIN all_courses[last_lookup.index]

\* The columns that hold meeting data.
MeetingFields == {"Meeting Days", "Meeting Times", "Location"}

\* The list a run with detailed = False returns for the page responses of
\* this run: the loop does not read the flag, and without the enrichment pass
\* the accumulated pages are returned as they are.
QuickResult == Concat(page_data)

\* Flattened, the two records agree on every column but the meeting columns.
SameButMeetings(enriched, plain) ==
    LET a == flatten_course_data(enriched)
        b == flatten_course_data(plain)
    IN  /\ a.raises = "" /\ b.raises = ""
        /\ DOMAIN a.record = DOMAIN b.record
        /\ \A k \in DOMAIN a.record \ MeetingFields : a.record[k] = b.record[k]

\* C10: on the same page responses and for any lookup outcomes, the run with
\* enrichment returns as many records as the run without, in the same order,
\* and the flattened records agree on every column other than Meeting Days,
\* Meeting Times and Location.
C10_EnrichmentKeepsColumns ==
    returned # None =>
        /\ Len(returned.l) = Len(QuickResult)
        /\ \A i \in 1 .. Len(returned.l) :
             SameButMeetings(returned.l[i], QuickResult[i])

\* C10 witness: an enriched run returned a record whose flattened meeting
\* columns differ from those of the plain summary.
C10_Witness ==
    /\ returned # None /\ detailed
    /\ \E i \in 1 .. Len(returned.l) :
         /\ "_detailed" \in DOMAIN returned.l[i]
         /\ flatten_course_data(returned.l[i]).record["Location"]
              # flatten_course_data(QuickResult[i]).record["Location"]

\* The course without the key.
Without(course, key) == [k \in DOMAIN course \ {key} |-> course[k]]

\* The values a summary's meetingsFaculty is changed to.
EmbeddedAlternatives ==
    {Absent, None} \cup {List(l) : l \in SeqsUpTo(MeetingEntries, 1)}

\* What a flatten_course_data result tells about the meetings: the exception
\* that left it, or the three meeting fields.
MeetingOutcome(result) ==
    IF result.raises # "" THEN <<result.raises>>
    ELSE <<"", [k \in MeetingFields |-> result.record[k]]>>

\* The summary carries attached faculty-meeting-time data.
HasAttached(course) == Truthy(DictGet(course, "_faculty_meeting_times", None))

\* C11: for a summary with faculty-meeting-time data attached, Meeting Days,
\* Meeting Times and Location depend on the attached entries only: with
\* meetingsFaculty removed or changed to any other value the call ends the
\* same way, with the same three fields.
C11_AttachedOnly ==
    (pc = "flattened" /\ HasAttached(flat_course)) =>
        \A m \in EmbeddedAlternatives :
            MeetingOutcome(flatten_course_data(
                WithKey(Without(flat_course, "meetingsFaculty"),
                        "meetingsFaculty", m)))
              = MeetingOutcome(flat_result)

\* C11 witness: attached entries that yield three empty fields, beside
\* embedded entries that would have yielded days, times and a location.
C11_Witness ==
    /\ pc = "flattened" /\ HasAttached(flat_course)
    /\ DictGet(flat_course, "meetingsFaculty", None) = List(<<EmbeddedMeeting>>)
    /\ flat_result.raises = ""
    /\ \A k \in MeetingFields : flat_result.record[k] = Str(<<>>)

\* C12: flatten_course_data never raises: on every summary in which fields,
\* attachments or sub-fields of a meeting or faculty entry (the meetingTime
\* of an entry among them) are absent or null, it returns a record with the
\* 18 named fields, each absent pass-through field being the empty string.
C12_Original ==
    pc = "flattened" =>
        /\ flat_result.raises = ""
        /\ DOMAIN flat_result.record = {FlatFields[i] : i \in 1 .. Len(FlatFields)}
        /\ \A k \in DOMAIN FlatSource :
             FlatSource[k] \notin DOMAIN flat_course =>
                 flat_result.record[k] = Str(<<>>)

\* Two history entries are the same request made again: the session request,
\* a page at the same offset, or the same lookup for the same record.
SameRequest(a, b) ==
    /\ a.kind = b.kind
    /\ CASE a.kind = "session" -> TRUE
         [] a.kind = "page" -> a.request.pageOffset = b.request.pageOffset
         [] OTHER -> a.request.index = b.request.index

\* A session or page request that did not deliver what the run needs.
FailedRequest(e) ==
    \/ e.outcome \in {"transport", "status"}
    \/ e.kind = "session" /\ ~Truthy(e.cookie)

\* C14: one run never repeats a request.  The session request is the first
\* request and is made once; no page offset and no lookup of a record is
\* requested twice; a failed session or page request is the last request of
\* the run, which ends with exit status 1, and a failed lookup (absorbed)
\* is not sent again either.
C14_NoRetry ==
    /\ requests # <<>> => requests[1].kind = "session"
    /\ pc # "start" =>
          Cardinality({k \in 1 .. Len(requests) : requests[k].kind = "session"}) = 1
    /\ \A j, k \in 1 .. Len(requests) :
          j # k => ~SameRequest(requests[j], requests[k])
    /\ \A k \in 1 .. Len(requests) :
          (requests[k].kind \in {"session", "page"} /\ FailedRequest(requests[k]))
            => k = Len(requests) /\ pc = "exit" /\ exit_code = 1

\* C14 witness: a finished run with two page requests and a record whose
\* class-detail request failed and was absorbed.
C14_Witness ==
    /\ pc = "exit" /\ exit_code = 0
    /\ Len(PageRequestsSent) = 2
    /\ last_lookup.index > 0 /\ last_lookup.details.error = "transport"

\* The request at position k is a session initialization that obtained a
\* token.
Initialized(k) ==
    /\ requests[k].kind = "session" /\ requests[k].outcome = "none"
    /\ Truthy(requests[k].cookie)

\* The Cookie header that carries the token.
JSessionId(token) ==
    Str(<<"J","S","E","S","S","I","O","N","I","D","=">> \o token.s)

\* Every page request in the history comes after a successful initialization
\* and carries the token of the latest one before it.
PagesCarryToken ==
    \A k \in 1 .. Len(requests) :
        requests[k].kind = "page" =>
            \E j \in 1 .. k - 1 :
                /\ Initialized(j)
                /\ \A i \in j + 1 .. k - 1 : ~Initialized(i)
                /\ requests[k].request.Cookie = JSessionId(requests[j].cookie)

\* A call made while the token is unset that sends nothing raises
\* "Session not initialized".
UnsetCallRaises ==
    (session_cookie = None /\ requests' = requests) =>
        raised' = "Session not initialized"

\* C15: every catalog page request sent comes after a successful session
\* initialization and carries the token of the most recent one as its
\* JSESSIONID cookie header; fetch_catalog_page on a client whose token is
\* unset raises without sending a request.
C15_PageCarriesToken == []PagesCarryToken /\ [][UnsetCallRaises]_vars

\* C15 witness: a call on the fresh client raised and sent nothing, then two
\* initializations obtained different tokens and a page request carried the
\* second.
C15_Witness ==
    /\ raised = "Session not initialized"
    /\ Len(requests) = 3
    /\ Initialized(1) /\ Initialized(2)
    /\ requests[1].cookie # requests[2].cookie
    /\ requests[3].kind = "page"
    /\ requests[3].request.Cookie = JSessionId(requests[2].cookie)

\* C16: the k-th catalog page request of a run asks for pageOffset
\* (k - 1) * 500 with pageMaxSize 500, however many records the pages before
\* it delivered.
C16_OffsetsByPageSize ==
    \A k \in 1 .. Len(PageRequestsSent) :
        /\ PageRequestsSent[k].request.pageOffset = (k - 1) * 500
        /\ PageRequestsSent[k].request.pageMaxSize = 500

\* C16 witness: a second page was requested at offset 500 after a first page
\* of a single record, the offset exceeding the accumulated record count.
C16_Witness ==
    /\ Len(PageRequestsSent) = 2 /\ Len(page_data) = 2
    /\ Len(page_data[1]) = 1
    /\ PageRequestsSent[2].request.pageOffset = 500
    /\ offset > Len(all_courses)

\* A step keeps to the first page's count: reading the first page sets
\* total_count to the totalCount that page reported (0 when it reported
\* none), and no later step changes it.
CapturedOnce ==
    /\ (Len(page_data) = 0 /\ Len(page_data') = 1) =>
          total_count' = IF server'.reported = None THEN Num(0)
                         ELSE server'.reported
    /\ Len(page_data) >= 1 => total_count' = total_count

\* C17: totalCount is captured from the first page response only; once the
\* first page is read, the value the termination test uses never changes,
\* whatever the later page responses report.
C17_TotalFromFirstPage ==
    [](Len(page_data) = 0 => total_count = None) /\ [][CapturedOnce]_vars

\* C17 witness: a second page was read that reported another totalCount than
\* the first, and total_count is still the first page's.
C17_Witness ==
    /\ Len(page_data) = 2
    /\ server.reported # None /\ server.reported # total_count

\* The record has a course-reference-number that is not empty.
CrnGiven(course) ==
    /\ "courseReferenceNumber" \in DOMAIN course
    /\ course["courseReferenceNumber"] \notin {None, Str(<<>>)}

RECURSIVE ExpectedLookups(_, _)
\* The lookups due for records i .. of the list: for each record with a
\* course-reference-number its class-detail request and then its
\* faculty-meeting-time request, as <<endpoint, record, number sent>>.
ExpectedLookups(list, i) ==
    IF i > Len(list) THEN <<>>
    ELSE (IF CrnGiven(list[i])
          THEN <<<<"details", i, list[i]["courseReferenceNumber"]>>,
                 <<"meetings", i, list[i]["courseReferenceNumber"]>>>>
          ELSE <<>>) \o ExpectedLookups(list, i + 1)

\* The lookups sent, in the same form.
LookupsMade ==
    [k \in 1 .. Len(LookupsSent) |->
        <<LookupsSent[k].kind, LookupsSent[k].request.index,
          LookupsSent[k].request.courseReferenceNumber>>]

\* C18: with detailed = False no lookup is ever sent and no record carries
\* an attachment; with detailed = True the lookups sent by the time
\* get_course_catalog returns are one class-detail and one
\* faculty-meeting-time request for each record with a non-empty
\* course-reference-number, in record order, and none for any other record.
C18_LookupsByFlagAndRecords ==
    /\ ~detailed =>
          /\ LookupsSent = <<>>
          /\ \A i \in 1 .. Len(all_courses) :
                DOMAIN all_courses[i] \cap {"_detailed", "_faculty_meeting_times"} = {}
    /\ (detailed /\ returned # None) =>
          LookupsMade = ExpectedLookups(returned.l, 1)

\* C18 witness: an enriched run returned three records, the first without a
\* course-reference-number, the second with one, the third with an empty
\* one; only the second was looked up.
C18_Witness ==
    /\ detailed /\ returned # None /\ Len(returned.l) = 3
    /\ "courseReferenceNumber" \notin DOMAIN returned.l[1]
    /\ CrnGiven(returned.l[2])
    /\ DictGet(returned.l[3], "courseReferenceNumber", None) = Str(<<>>)
    /\ Len(LookupsSent) = 2

\* The two attachment fields of the enrichment pass.
Attachments == {"_detailed", "_faculty_meeting_times"}

\* From `before` to `after` a record gained or changed attachment fields at
\* most: every other field is there with the value it had, and no other
\* field was added.
OnlyAttached(before, after) ==
    /\ \A k \in DOMAIN before \ Attachments :
          k \in DOMAIN after /\ after[k] = before[k]
    /\ DOMAIN after \ DOMAIN before \subseteq Attachments

\* A step of the enrichment pass is additive.
EnrichmentAdditive ==
    pc = "enriching" =>
        /\ Len(all_courses') = Len(all_courses)
        /\ \A i \in 1 .. Len(all_courses) :
              /\ OnlyAttached(all_courses[i], all_courses'[i])
              /\ i # course_index => all_courses'[i] = all_courses[i]

\* C19: the enrichment pass changes nothing of a record except possibly
\* setting _detailed and _faculty_meeting_times: every summary field the
\* catalog page delivered has the same value after the pass as before, and
\* no record is added, dropped or moved.
C19_EnrichmentAdditive == [][EnrichmentAdditive]_vars

\* C19 witness: the pass is over and left a record with both attachments,
\* whose other fields are the summary the catalog delivered.
C19_Witness ==
    /\ detailed /\ pc = "returned"
    /\ \E i \in 1 .. Len(all_courses) :
         /\ Attachments \subseteq DOMAIN all_courses[i]
         /\ OnlyAttached(server.records[i], all_courses[i])
         /\ all_courses[i]["courseTitle"] # all_courses[i]["_detailed"].d["courseTitle"]

\* The meeting entries of the source flatten_course_data chooses.
ChosenEntries(course) ==
    IF HasAttached(course) THEN course["_faculty_meeting_times"].l
    ELSE IF Truthy(DictGet(course, "meetingsFaculty", None))
    THEN course["meetingsFaculty"].l
    ELSE <<>>

\* Monday to Sunday, and the initial of each.
Week == <<"monday", "tuesday", "wednesday", "thursday", "friday", "saturday",
          "sunday">>

Initials == <<"M", "T", "W", "T", "F", "S", "S">>

\* The day-string of a meeting entry: the initials of the days its
\* meetingTime flags true, Monday first.
DayString(entry) ==
    LET mt      == DictGet(entry.d, "meetingTime", Dict(EmptyDict)).d
        flagged == SelectSeq(<<1, 2, 3, 4, 5, 6, 7>>,
                     LAMBDA i : Week[i] \in DOMAIN mt /\ mt[Week[i]] = Bool(TRUE))
    IN  [j \in 1 .. Len(flagged) |-> Initials[flagged[j]]]

\* The day-strings of all entries, in entry order.
DayStrings(entries) == [i \in 1 .. Len(entries) |-> DayString(entries[i])]

\* C20 as stated: Meeting Days holds one day-string per meeting entry of the
\* chosen source, each the initials of the entry's flagged days in Monday to
\* Sunday order, joined by ", ".
C20_Original ==
    (pc = "flattened" /\ flat_result.raises = "") =>
        flat_result.record["Meeting Days"]
          = Str(Join(CommaSpace, DayStrings(ChosenEntries(flat_course))))

\* C20: Meeting Days holds one day-string for each meeting entry of the
\* chosen source that flags at least one day, in entry order and joined by
\* ", "; an entry that flags no day contributes nothing.  Each day-string is
\* the initials of the entry's flagged days in Monday to Sunday order.
C20_DayStringPerFlaggedEntry ==
    (pc = "flattened" /\ flat_result.raises = "") =>
        flat_result.record["Meeting Days"]
          = Str(Join(CommaSpace,
                     SelectSeq(DayStrings(ChosenEntries(flat_course)),
                               LAMBDA d : d # <<>>)))

\* C20 witness: two meeting entries, the first flagging no day, the second
\* Monday, Wednesday and Friday; Meeting Days is "MWF" alone.
C20_Witness ==
    /\ pc = "flattened" /\ flat_result.raises = ""
    /\ DayStrings(ChosenEntries(flat_course)) = <<<<>>, <<"M", "W", "F">>>>
    /\ flat_result.record["Meeting Days"] = Str(<<"M", "W", "F">>)

\* The text of a sub-field of a meetingTime: empty when the key is absent,
\* null or the empty string.
Text(mt, key) ==
    IF key \in DOMAIN mt /\ mt[key] \notin {None, Str(<<>>)}
    THEN mt[key].s ELSE <<>>

\* The location of a meeting entry as the encoding rule gives it: from the
\* attached source the building description if there is one, else the
\* building code; from the embedded source the building code; then a space
\* and the room code if there is one; trimmed.
ClaimedLocation(entry, attached) ==
    LET mt    == DictGet(entry.d, "meetingTime", Dict(EmptyDict)).d
        desc  == Text(mt, "buildingDescription")
        code  == Text(mt, "building")
        room  == Text(mt, "room")
        place == IF attached /\ desc # <<>> THEN desc ELSE code
    IN  Strip(IF room # <<>> THEN place \o <<" ">> \o room ELSE place)

\* The locations of the entries that have one, in entry order.
ClaimedLocations(entries, attached) ==
    SelectSeq([i \in 1 .. Len(entries) |-> ClaimedLocation(entries[i], attached)],
              LAMBDA l : l # <<>>)

\* C21: Location is the ", "-joined locations of the meeting entries of the
\* chosen source: building description else building code (attached source)
\* or building code (embedded source), with the room code appended after a
\* space when present, trimmed.
C21_Original ==
    (pc = "flattened" /\ flat_result.raises = "") =>
        flat_result.record["Location"]
          = Str(Join(CommaSpace,
                     ClaimedLocations(ChosenEntries(flat_course),
                                      HasAttached(flat_course))))

\* The embedded meeting entries of a record.
EmbeddedEntries(course) ==
    IF "meetingsFaculty" \in DOMAIN course THEN course["meetingsFaculty"].l
    ELSE <<>>

\* The flattened record takes its meeting fields from the embedded entries:
\* they are those of the summary as the catalog delivered it, with the days
\* and locations of the embedded entries.
FromEmbedded(course, summary) ==
    LET flat == flatten_course_data(course)
    IN  /\ flat.raises = ""
        /\ MeetingOutcome(flat) = MeetingOutcome(flatten_course_data(summary))
        /\ flat.record["Meeting Days"]
             = Str(Join(CommaSpace,
                        SelectSeq(DayStrings(EmbeddedEntries(summary)),
                                  LAMBDA d : d # <<>>)))
        /\ flat.record["Location"]
             = Str(Join(CommaSpace,
                        ClaimedLocations(EmbeddedEntries(summary), FALSE)))

\* C22: a record carries faculty-meeting-time data only if its
\* faculty-meeting-time lookup succeeded with a non-empty fmt list, and the
\* data it carries is never an empty list; hence after a lookup that failed
\* or delivered an empty list, flatten_course_data takes Meeting Days,
\* Meeting Times and Location from the summary's embedded meeting entries.
C22_FallbackNotMasked ==
    /\ \A i \in 1 .. Len(all_courses) :
          "_faculty_meeting_times" \in DOMAIN all_courses[i] =>
              /\ all_courses[i]["_faculty_meeting_times"].t = "list"
              /\ all_courses[i]["_faculty_meeting_times"].l # <<>>
              /\ LookedUp(i)
    /\ last_lookup.index > 0 =>
          LET course == all_courses[last_lookup.index]
          IN  /\ "_faculty_meeting_times" \in DOMAIN course
                   => MeetingsDelivered(last_lookup.meetings)
              /\ ~MeetingsDelivered(last_lookup.meetings)
                   => FromEmbedded(course, server.records[last_lookup.index])

\* C22 witness: the run returned a record whose faculty-meeting-time lookup
\* delivered an empty fmt list; the record carries no faculty-meeting-time
\* data and flattens to the days and the location of its embedded entry.
C22_Witness ==
    /\ pc = "returned" /\ last_lookup.index > 0
    /\ last_lookup.meetings.error = "none" /\ last_lookup.meetings.text
    /\ DictGet(last_lookup.meetings.json.d, "fmt", None) = List(<<>>)
    /\ "_faculty_meeting_times" \notin DOMAIN all_courses[last_lookup.index]
    /\ flatten_course_data(all_courses[last_lookup.index]).record["Meeting Days"]
         = Str(<<"M", "W">>)
    /\ flatten_course_data(all_courses[last_lookup.index]).record["Location"]
         = Str(<<"W", "E", "N", "T", " ", "1", "0", "0">>)

====
